---- MODULE Spec2Model ----
(***************************************************************************)
(* Model of the core of src/src/index.py (snapchat_export_converter):     *)
(* remove_duplicates, merge_exif_data, process_image_overlays,             *)
(* process_video_overlays, get_video_creation_date, update_all_metadata,   *)
(* remove_empty_folders and reorganize_files.                              *)
(*                                                                         *)
(* The program is a sequence of phases, each a loop over a file list that  *)
(* is enumerated before the loop starts.  Every phase is modelled as its   *)
(* own state machine over the part of the file system it reads and writes; *)
(* the variable `mode` says which phase a behaviour exercises.             *)
(*                                                                         *)
(* Dates and file-system timestamps are instants on one integer axis       *)
(* (datetime.timestamp() is monotone); None (no date) is 0.                *)
(***************************************************************************)
EXTENDS Integers, Sequences, FiniteSets, TLC

\* ------------------------------------------------------------------ bounds
\* number of files under tmp/ in the remove_duplicates phase
NumFiles == 3
\* largest number of files under tmp/ when the overlay phases start
MaxFiles == 3
\* the dates an EXIF date tag can hold range over 1..MaxTagDate
MaxTagDate == 2

\* the files of an export taken through the phases from the overlays on
PipelineFiles == 2

\* the logged errors are counted up to this number
MaxLogged == 3

\* ------------------------------------------------------------ common parts
\* Python's None, used for "no date" and "no metadata"
None == 0

\* min() over a non-empty set of instants
Min(S) == CHOOSE x \in S : \A y \in S : x <= y

Max(S) == CHOOSE x \in S : \A y \in S : y <= x

SeqToSet(s) == {s[k] : k \in 1..Len(s)}

VARIABLES
    mode,          \* which phase this behaviour runs
    aborted,       \* an exception left the phase function
    errors,        \* number of logging.error calls made by the phase
    \* --- remove_duplicates
    content,       \* file -> fingerprint of its bytes
    filename_date, \* file -> date parsed from its name, or None
    embedded,      \* fingerprint -> date embedded in those bytes, or None
    disk,          \* files present under tmp/
    dpc,           \* position in remove_duplicates
    di,            \* loop index of the current loop
    hash_dict,     \* insertion-ordered: sequence of [hash, members]
    to_delete,     \* sequence of files scheduled for removal
    hash_failed,   \* files whose hashing or stat raised
    probe_failed,  \* files whose EXIF read / ffprobe raised
    unlink_failed, \* files whose unlink raised
    survivors,     \* files kept as scored_files[0] of a duplicate group
    \* --- merge_exif_data
    main_exif,     \* first argument
    overlay_exif,  \* second argument
    final_exif,    \* the value returned
    mpc,           \* "call" before the call, "returned" after it
    \* --- process_image_overlays, process_video_overlays
    fs,            \* file name -> [data, mtime] of the files under tmp/
    fs0,           \* fs when the overlay phases started
    meta,          \* file name -> embedded metadata, where it is determined
    ophase,        \* "image", "video", "finished"
    opc,           \* "enumerate", "loop", "step", "done"
    pairs,         \* phase -> the pairs list built by that phase
    todo,          \* pairs of the running loop not yet visited
    cur,           \* locals of the loop body for the pair being processed
    history,       \* one record per pair whose loop body has ended
    \* --- update_all_metadata
    media_files,   \* the files the phase enumerated
    pending,       \* files of the loop not yet visited
    visited,       \* one record per file whose update call has returned
    spc,           \* "enumerate", "loop", "done"
    pass,          \* how many times update_all_metadata has been called
    \* --- remove_empty_folders
    tree,          \* the directories present under tmp/
    occupied,      \* the directories that hold a file
    denied,        \* the directories whose rmdir is refused
    empty_dirs,    \* directories of the current round still to be removed
    epc,           \* "scan", "remove", "done"
    \* --- reorganize_files
    rfiles,        \* the files under tmp/, each with its folder
    media,         \* name in media/ -> the file stored under it
    files_with_metadata, \* the sorted list of (file, folder_name, date)
    folder_counters,     \* folder_name -> next number
    ri,            \* index of the move loop
    rpc,           \* "collect", "move", "done"
    moves,         \* one record per executed rename
    \* --- the overlay phases run a second time
    run,           \* 1 in the first run of the program, 2 in the second
    fs1,           \* the files the first run left
    history1,      \* the pairs of the first run
    \* --- get_video_creation_date
    creation_time_tag, \* the tags dictionary entry ffprobe printed
    probe_result,      \* the value returned
    gpc                \* "call", "returned"

dedupVars == <<content, filename_date, embedded, disk, dpc, di, hash_dict,
               to_delete, hash_failed, probe_failed, unlink_failed, survivors>>

mergeVars == <<main_exif, overlay_exif, final_exif, mpc>>

overlayVars == <<fs, fs0, meta, ophase, opc, pairs, todo, cur, history>>

stampVars == <<media_files, pending, visited, spc, pass>>

emptyVars == <<tree, occupied, denied, empty_dirs, epc>>

reorgVars == <<rfiles, media, files_with_metadata, folder_counters, ri, rpc,
               moves>>

rerunVars == <<run, fs1, history1>>

probeVars == <<creation_time_tag, probe_result, gpc>>

\* the variables of the parts that follow the metadata update
tailVars == <<emptyVars, reorgVars, rerunVars, probeVars>>

vars == <<mode, aborted, errors, dedupVars, mergeVars, overlayVars, stampVars,
          tailVars>>

\* ---------------------------------------------------------- error handling
\* The statements that sit inside a try block whose handler logs and lets
\* the loop go on.
TrySites ==
    {"analyze", "unlink", "image_pair", "video_pair", "update_image",
     "update_video", "iterdir", "rmdir", "move"}

\* the handlers with the one around unlink in remove_duplicates left out
CatchesExceptUnlink(site) == site \in TrySites \ {"unlink"}

Catches(site) == site \in TrySites

\* An exception raised at `site`: logged when a handler encloses the site,
\* otherwise it leaves the phase function.
Raise(site) ==
    /\ aborted' = (aborted \/ ~Catches(site))
    /\ errors' = IF Catches(site) THEN errors + 1 ELSE errors

NoRaise == UNCHANGED <<aborted, errors>>

\* ---------------------------------------------------------- EXIF metadata
\* A loaded EXIF block is a mapping from "<ifd>.<tag>" to the tag's value;
\* piexif.load always returns every IFD, so a loaded block is never falsy.
\* A block that could not be loaded is Python's None.
DateTags == {"0th.DateTime", "Exif.DateTimeOriginal", "Exif.DateTimeDigitized"}

AuxTags == {"0th.Make"}

ExifTags == DateTags \cup AuxTags

\* the IFDs merge_exif_data walks over
MergedIfds == {"0th", "Exif", "GPS", "1st"}

Ifd(tag) == IF tag \in {"0th.DateTime", "0th.Make"} THEN "0th" ELSE "Exif"

\* a date tag whose text strptime rejects
Malformed == -1

TagDates == 1..MaxTagDate

\* two distinct values of a non-date tag
AuxValues == {11, 12}

TagValues(tag) == IF tag \in DateTags THEN TagDates \cup {Malformed} ELSE AuxValues

NoExif == [loaded |-> FALSE, tags |-> [t \in {} |-> None]]

Loaded(tags) == [loaded |-> TRUE, tags |-> tags]

\* every block over the modelled tags
TagMaps ==
    UNION {{m \in [present -> TagDates \cup {Malformed} \cup AuxValues] :
               \A t \in present : m[t] \in TagValues(t)} :
           present \in SUBSET ExifTags}

ExifBlocks == {NoExif} \cup {Loaded(m) : m \in TagMaps}

\* the blocks whose date tags all parse
WellFormedBlocks ==
    {b \in ExifBlocks : \A t \in DOMAIN b.tags : b.tags[t] # Malformed}

\* get_exif_date: the oldest of the date tags that parse, or None
ParsedDates(exif_dict) ==
    {exif_dict.tags[t] : t \in {u \in DOMAIN exif_dict.tags \cap DateTags :
                                   exif_dict.tags[u] # Malformed}}

get_exif_date(exif_dict) ==
    IF ~exif_dict.loaded THEN None
    ELSE IF ParsedDates(exif_dict) = {} THEN None
    ELSE Min(ParsedDates(exif_dict))

\* dict update: the entries of `over` replace or extend those of `base`
Updated(base, over) ==
    [t \in DOMAIN base \cup DOMAIN over |->
        IF t \in DOMAIN over THEN over[t] ELSE base[t]]

Restrict(m, keys) == [t \in DOMAIN m \cap keys |-> m[t]]

\* second loop of merge_exif_data: every non-date tag of the overlay is
\* stored into the result
MergedAux(final, overlay) ==
    Updated(final, Restrict(overlay.tags,
                       {t \in ExifTags \ DateTags : Ifd(t) \in MergedIfds}))

\* first loop of merge_exif_data: the overlay's date tags are stored into
\* the result when the overlay's date is the one to use
MergedDates(final, overlay, use_overlay_date) ==
    IF use_overlay_date
    THEN Updated(final, Restrict(overlay.tags, DateTags))
    ELSE final

UseOverlayDate(main_date, overlay_date) ==
    IF main_date # None /\ overlay_date # None THEN overlay_date < main_date
    ELSE overlay_date # None

merge_exif_data(main, overlay) ==
    LET final == IF main.loaded THEN main.tags ELSE [t \in {} |-> None]
    IN IF ~overlay.loaded THEN Loaded(final)
       ELSE Loaded(MergedAux(
                MergedDates(final, overlay,
                    UseOverlayDate(get_exif_date(main), get_exif_date(overlay))),
                overlay))

MergeIdle ==
    /\ main_exif = NoExif
    /\ overlay_exif = NoExif
    /\ final_exif = NoExif
    /\ mpc = "idle"

DedupIdle ==
    /\ content = <<>>
    /\ filename_date = <<>>
    /\ embedded = <<>>
    /\ disk = {}
    /\ dpc = "idle"
    /\ di = 0
    /\ hash_dict = <<>>
    /\ to_delete = <<>>
    /\ hash_failed = {}
    /\ probe_failed = {}
    /\ unlink_failed = {}
    /\ survivors = {}

\* A file name "<date>_<uuid>-<role>.<ext>" is the record of its parts; the
\* date part is None when the name does not start with a date.
NoName == [date |-> None, id |-> "", role |-> "", ext |-> ""]

\* the value of the loop-body locals outside the loop body
NoPair ==
    [uuid |-> "", main |-> NoName, overlay |-> NoName,
     original |-> NoName, with_overlay |-> NoName, pos |-> 0,
     main_meta |-> [exif |-> NoExif, creation_time |-> None],
     overlay_meta |-> [exif |-> NoExif, creation_time |-> None],
     final_exif |-> NoExif, final_date |-> None, composite |-> <<>>,
     written |-> FALSE, exif_dropped |-> FALSE, date_written |-> None]

OverlayIdle ==
    /\ fs = <<>>
    /\ fs0 = <<>>
    /\ meta = <<>>
    /\ ophase = "idle"
    /\ opc = "idle"
    /\ pairs = <<>>
    /\ todo = {}
    /\ cur = NoPair
    /\ history = {}

StampIdle ==
    /\ media_files = {}
    /\ pending = {}
    /\ visited = {}
    /\ spc = "idle"
    /\ pass = 0

EmptyIdle ==
    /\ tree = {}
    /\ occupied = {}
    /\ denied = {}
    /\ empty_dirs = {}
    /\ epc = "idle"

ReorgIdle ==
    /\ rfiles = {}
    /\ media = <<>>
    /\ files_with_metadata = <<>>
    /\ folder_counters = <<>>
    /\ ri = 0
    /\ rpc = "idle"
    /\ moves = <<>>

RerunIdle ==
    /\ run = 1
    /\ fs1 = <<>>
    /\ history1 = {}

ProbeIdle ==
    /\ creation_time_tag = [present |-> FALSE, text |-> <<>>]
    /\ probe_result = [date |-> "", time |-> ""]
    /\ gpc = "idle"

TailIdle == EmptyIdle /\ ReorgIdle /\ RerunIdle /\ ProbeIdle

InitMerge ==
    /\ mode = "merge_exif_data"
    /\ aborted = FALSE
    /\ errors = 0
    /\ main_exif \in WellFormedBlocks
    /\ overlay_exif \in WellFormedBlocks
    /\ final_exif = NoExif
    /\ mpc = "call"
    /\ DedupIdle
    /\ OverlayIdle
    /\ StampIdle
    /\ TailIdle

CallMerge ==
    /\ mode = "merge_exif_data"
    /\ mpc = "call"
    /\ final_exif' = merge_exif_data(main_exif, overlay_exif)
    /\ mpc' = "returned"
    /\ UNCHANGED <<mode, aborted, errors, main_exif, overlay_exif, dedupVars,
                   overlayVars, stampVars, tailVars>>

NextMerge == CallMerge

SpecMerge == InitMerge /\ [][NextMerge]_vars

\* ------------------------------------------------------- remove_duplicates
DFiles == 1..NumFiles

Contents == {"H1", "H2"}

\* dates a file name can carry
FileDates == {2}

\* dates the bytes can embed: one older, one later than the file name's
EmbeddedDates == {1, 3}

\* files are extracted shortly before the run, later than every capture
ExtractTime == Max(FileDates \cup EmbeddedDates) + 1

\* the suffix decides which probe get_file_metadata runs; the bytes of one
\* fingerprint are of one kind
IsVideo(h) == h = "H2"

\* get_file_metadata: `probe_ok` is whether the EXIF read / ffprobe worked
get_file_metadata(f, probe_ok) ==
    [creation_time |-> ExtractTime + 1,
     modification_time |-> ExtractTime,
     exif_data |-> IF probe_ok /\ ~IsVideo(content[f])
                   THEN embedded[content[f]] ELSE None,
     video_metadata |-> IF probe_ok /\ IsVideo(content[f])
                        THEN embedded[content[f]] ELSE None,
     filename_date |-> filename_date[f]]

\* the candidate dates score_metadata collects
CandidateDates(m) ==
    {d \in {m.filename_date, m.exif_data, m.video_metadata} : d # None}

\* a score that takes the latest candidate date
ScoreLatest(m) ==
    IF CandidateDates(m) # {}
    THEN Max(CandidateDates(m))
    ELSE Min({m.creation_time, m.modification_time})

score_metadata(m) ==
    IF CandidateDates(m) # {}
    THEN Min(CandidateDates(m))
    ELSE Min({m.creation_time, m.modification_time})

\* an insertion that puts an element before the elements of equal key
RECURSIVE InsertByScoreTiesLast(_, _)
InsertByScoreTiesLast(sorted, x) ==
    IF sorted = <<>> THEN <<x>>
    ELSE IF Head(sorted).score < x.score
         THEN <<Head(sorted)>> \o InsertByScoreTiesLast(Tail(sorted), x)
         ELSE <<x>> \o sorted

\* list.sort(key=...) is stable: insert each element after the elements
\* whose key is not larger
RECURSIVE InsertByScore(_, _)
InsertByScore(sorted, x) ==
    IF sorted = <<>> THEN <<x>>
    ELSE IF Head(sorted).score <= x.score
         THEN <<Head(sorted)>> \o InsertByScore(Tail(sorted), x)
         ELSE <<x>> \o sorted

\* the element of a one-element set: the value of an expression, computed
\* once before it is used
Value(S) == CHOOSE v \in S : TRUE

RECURSIVE SortByScore(_)
SortByScore(s) ==
    IF s = <<>> THEN <<>>
    ELSE Value({InsertByScore(front, s[Len(s)]) :
                   front \in {SortByScore(SubSeq(s, 1, Len(s) - 1))}})

\* scored_files of a group, sorted
ScoredFiles(group) ==
    Value({SortByScore(entries) :
              entries \in {[k \in 1..Len(group) |->
                  [path |-> group[k].path, metadata |-> group[k].metadata,
                   score |-> score_metadata(group[k].metadata)]]}})

\* hash_dict[h].append(entry) on a defaultdict(list)
HashDictAppend(hd, h, entry) ==
    IF \E k \in 1..Len(hd) : hd[k].hash = h
    THEN [k \in 1..Len(hd) |->
            IF hd[k].hash = h
            THEN [hd[k] EXCEPT !.members = Append(@, entry)]
            ELSE hd[k]]
    ELSE Append(hd, [hash |-> h, members |-> <<entry>>])

IsDuplicateGroup(g) == Len(g.members) > 1

duplicate_groups == SelectSeq(hash_dict, IsDuplicateGroup)

PathsOf(s) == [k \in 1..Len(s) |-> s[k].path]

\* a slice that keeps the survivor too
LosersKeepNone(scored_files) == PathsOf(scored_files)

\* scored_files[1:], the members scheduled for deletion
Losers(scored_files) == PathsOf(Tail(scored_files))

\* the entry is stored although the probe failed, with the embedded date
AnalyzedIgnoringFailure(hd, f, hashed_ok, probe_ok) ==
    HashDictAppend(hd, content[f],
        [path |-> f, metadata |-> get_file_metadata(f, TRUE)])

\* body of the first loop: the entry is stored only when hashing and stat
\* raised nothing
Analyzed(hd, f, hashed_ok, probe_ok) ==
    IF hashed_ok
    THEN HashDictAppend(hd, content[f],
             [path |-> f, metadata |-> get_file_metadata(f, probe_ok)])
    ELSE hd

InitDedup ==
    /\ mode = "remove_duplicates"
    /\ aborted = FALSE
    /\ errors = 0
    /\ content \in [DFiles -> Contents]
    /\ content[1] = "H1"
    /\ filename_date \in [DFiles -> {None} \cup FileDates]
    /\ embedded \in [Contents -> {None} \cup EmbeddedDates]
    /\ disk = DFiles
    /\ dpc = "analyze"
    /\ di = 1
    /\ hash_dict = <<>>
    /\ to_delete = <<>>
    /\ hash_failed = {}
    /\ probe_failed = {}
    /\ unlink_failed = {}
    /\ survivors = {}
    /\ MergeIdle
    /\ OverlayIdle
    /\ StampIdle
    /\ TailIdle

\* first pass, one file: hash it and gather its metadata
AnalyzeFile ==
    /\ mode = "remove_duplicates" /\ ~aborted
    /\ dpc = "analyze" /\ di <= NumFiles
    /\ \/ \* open/read or stat raises
          /\ Raise("analyze")
          /\ hash_dict' = Analyzed(hash_dict, di, FALSE, FALSE)
          /\ hash_failed' = hash_failed \cup {di}
          /\ UNCHANGED probe_failed
       \/ \* hashed; the probe inside get_file_metadata works
          /\ NoRaise
          /\ hash_dict' = Analyzed(hash_dict, di, TRUE, TRUE)
          /\ UNCHANGED <<hash_failed, probe_failed>>
       \/ \* hashed; the probe raises inside get_file_metadata, which logs
          \* it and returns the metadata without the embedded part
          /\ aborted' = aborted
          /\ errors' = errors + 1
          /\ hash_dict' = Analyzed(hash_dict, di, TRUE, FALSE)
          /\ probe_failed' = probe_failed \cup {di}
          /\ UNCHANGED hash_failed
    /\ di' = IF di = NumFiles THEN 1 ELSE di + 1
    /\ dpc' = IF di = NumFiles THEN "decide" ELSE "analyze"
    /\ UNCHANGED <<mode, content, filename_date, embedded, disk,
                   to_delete, unlink_failed, survivors>>

\* second loop, one duplicate group: keep the first of the sorted members
\* a single pass that unlinks the losers of a group as soon as the group
\* is decided
ProcessGroupUnlinking ==
    /\ mode = "remove_duplicates" /\ ~aborted
    /\ dpc = "decide" /\ di <= Len(duplicate_groups)
    /\ \E scored_files \in {ScoredFiles(duplicate_groups[di].members)} :
          /\ to_delete' = to_delete \o Losers(scored_files)
          /\ survivors' = survivors \cup {scored_files[1].path}
          /\ disk' = disk \ SeqToSet(Losers(scored_files))
    /\ di' = di + 1
    /\ UNCHANGED <<mode, aborted, errors, content, filename_date,
                   embedded, dpc, hash_dict, hash_failed,
                   probe_failed, unlink_failed>>

ProcessGroup ==
    /\ mode = "remove_duplicates" /\ ~aborted
    /\ dpc = "decide" /\ di <= Len(duplicate_groups)
    /\ \E scored_files \in {ScoredFiles(duplicate_groups[di].members)} :
          /\ to_delete' = to_delete \o Losers(scored_files)
          /\ survivors' = survivors \cup {scored_files[1].path}
    /\ di' = di + 1
    /\ UNCHANGED <<mode, aborted, errors, content, filename_date,
                   embedded, disk, dpc, hash_dict, hash_failed,
                   probe_failed, unlink_failed>>

\* after the second loop: return early when nothing is to be deleted
EndDecide ==
    /\ mode = "remove_duplicates" /\ ~aborted
    /\ dpc = "decide" /\ di > Len(duplicate_groups)
    /\ dpc' = IF to_delete = <<>> THEN "done" ELSE "remove"
    /\ di' = 1
    /\ UNCHANGED <<mode, aborted, errors, content, filename_date,
                   embedded, disk, hash_dict, to_delete, hash_failed,
                   probe_failed, unlink_failed, survivors>>

\* third loop, one file: unlink it
RemoveFile ==
    /\ mode = "remove_duplicates" /\ ~aborted
    /\ dpc = "remove" /\ di <= Len(to_delete)
    /\ \/ /\ NoRaise
          /\ disk' = disk \ {to_delete[di]}
          /\ UNCHANGED unlink_failed
       \/ /\ Raise("unlink")
          /\ unlink_failed' = unlink_failed \cup {to_delete[di]}
          /\ UNCHANGED disk
    /\ di' = di + 1
    /\ dpc' = IF di = Len(to_delete) THEN "done" ELSE "remove"
    /\ UNCHANGED <<mode, content, filename_date, embedded,
                   hash_dict, to_delete, hash_failed, probe_failed,
                   survivors>>

NextDedup ==
    /\ AnalyzeFile \/ ProcessGroup \/ EndDecide \/ RemoveFile
    /\ UNCHANGED <<mergeVars, overlayVars, stampVars, tailVars>>

SpecDedup == InitDedup /\ [][NextDedup]_vars

\* ------------------------------------------------------- overlay phases
\* Two identifiers that differ only in the letter case of a hex digit.
Ids == {"a", "A"}

\* str.lower() on an identifier
Lower(id) == IF id = "A" THEN "a" ELSE id

NameDates == {2}

\* the "-main." and "-overlay." files an export can hold
InitialKinds ==
    {<<"main", "jpg">>, <<"main", "mp4">>, <<"overlay", "png">>,
     <<"overlay", "mp4">>}

\* every name under the first identifier; under the second one the dated
\* names of the kinds the phases pair
InitialNames ==
    {[date |-> d, id |-> "a", role |-> k[1], ext |-> k[2]] :
        d \in {None} \cup NameDates, k \in InitialKinds}
    \cup {[date |-> d, id |-> "A", role |-> k[1], ext |-> k[2]] :
        d \in NameDates, k \in InitialKinds \ {<<"overlay", "mp4">>}}

RECURSIVE SetsUpTo(_, _)
\* the subsets of S with at most n elements
SetsUpTo(S, n) ==
    IF n = 0 THEN {{}}
    ELSE LET smaller == SetsUpTo(S, n - 1)
         IN smaller \cup {T \cup {x} : T \in smaller, x \in S}

\* the instant a file written during the run gets as its mtime
RunTime == ExtractTime + 1

Remove(f, n) == [x \in DOMAIN f \ {n} |-> f[x]]

Put(f, n, v) == [x \in DOMAIN f \cup {n} |-> IF x = n THEN v ELSE f[x]]

\* the embedded metadata a file can turn out to hold
VideoDates == {1, 3}

MainExifChoices ==
    {NoExif, Loaded([t \in {"Exif.DateTimeOriginal", "0th.Make"} |->
                        IF t = "0th.Make" THEN 11 ELSE 3])}

OverlayExifChoices ==
    {NoExif, Loaded([t \in {"0th.DateTime", "0th.Make"} |->
                        IF t = "0th.Make" THEN 12 ELSE 1])}

MetaChoices(n) ==
    IF n.ext = "mp4"
    THEN {[exif |-> NoExif, creation_time |-> c] : c \in {None} \cup VideoDates}
    ELSE {[exif |-> e, creation_time |-> None] :
             e \in IF n.role \in {"overlay", "with-overlay"}
                   THEN OverlayExifChoices ELSE MainExifChoices}

\* what reading the metadata of n can yield
Observable(n) == IF n \in DOMAIN meta THEN {meta[n]} ELSE MetaChoices(n)

\* '-overlay.' in file.name
IsOverlayName(n) == n.role \in {"overlay", "with-overlay"}

\* '-main.' in file.name
IsMainName(n) == n.role = "main"

ImageSuffixes == {"jpg", "jpeg", "png"}

\* the classification made by the enumeration loop of each phase
IsOverlayOf(phase, n) ==
    IF phase = "image" THEN IsOverlayName(n)
    ELSE IsOverlayName(n) /\ n.ext = "png"

IsMainOf(phase, n) ==
    /\ ~IsOverlayOf(phase, n)
    /\ IsMainName(n)
    /\ IF phase = "image" THEN n.ext \in ImageSuffixes ELSE n.ext = "mp4"

\* the keys of the two dictionaries that occur in both
PairedUuids(phase, files) ==
    {u \in Ids : /\ \E n \in files : IsMainOf(phase, n) /\ n.id = u
                 /\ \E n \in files : IsOverlayOf(phase, n) /\ n.id = u}

\* name.replace('-main', '') followed by the new stem suffix
OriginalPath(main) == [main EXCEPT !.role = "original"]

WithOverlayPath(main) == [main EXCEPT !.role = "with-overlay"]

\* the loop body with the overlay removed before the output is saved
ImageStepsUnlinkBeforeSave == <<"rename", "load", "unlink", "save">>

\* the statements of the loop body, in program order
ImageSteps == <<"rename", "load", "save", "unlink">>

VideoSteps == <<"rename", "dates", "ffmpeg", "utime", "unlink">>

Steps(phase) == IF phase = "image" THEN ImageSteps ELSE VideoSteps

PairSite(phase) == IF phase = "image" THEN "image_pair" ELSE "video_pair"

CurStep == IF opc = "step" THEN Steps(ophase)[cur.pos] ELSE "none"

\* the record kept of a pair whose loop body ended
Ended(c, failed_at) ==
    [phase |-> ophase, uuid |-> c.uuid, main |-> c.main,
     overlay |-> c.overlay, original |-> c.original,
     with_overlay |-> c.with_overlay, main_meta |-> c.main_meta,
     overlay_meta |-> c.overlay_meta, written |-> c.written,
     exif_dropped |-> c.exif_dropped,
     date_written |-> c.date_written, failed_at |-> failed_at]

\* the current statement succeeded, leaving the locals as c
Proceed(c) ==
    /\ NoRaise
    /\ IF c.pos = Len(Steps(ophase))
       THEN /\ cur' = NoPair
            /\ history' = history \cup {Ended(c, "none")}
            /\ opc' = "loop"
       ELSE /\ cur' = [c EXCEPT !.pos = @ + 1]
            /\ opc' = "step"
            /\ UNCHANGED history

\* the current statement raised: the handler logs, the loop goes on
Fail(c, failed_at) ==
    /\ Raise(PairSite(ophase))
    /\ cur' = NoPair
    /\ history' = history \cup {Ended(c, failed_at)}
    /\ opc' = "loop"

InitOverlay ==
    /\ mode = "overlays"
    /\ aborted = FALSE
    /\ errors = 0
    /\ \E S \in SetsUpTo(InitialNames, MaxFiles) :
          fs = [n \in S |-> [data |-> <<n>>, mtime |-> ExtractTime]]
    /\ fs0 = fs
    /\ meta = <<>>
    /\ ophase = "image"
    /\ opc = "enumerate"
    /\ pairs = [p \in {"image", "video"} |-> {}]
    /\ todo = {}
    /\ cur = NoPair
    /\ history = {}
    /\ DedupIdle
    /\ MergeIdle
    /\ StampIdle
    /\ TailIdle

Running == mode = "overlays" /\ ~aborted

\* the enumeration loop and the pairs list; a dictionary keeps the file
\* enumerated last for its key, and rglob's order is the platform's
Enumerate ==
    /\ Running /\ opc = "enumerate"
    /\ LET files == DOMAIN fs
           U == PairedUuids(ophase, files)
       IN \E mains \in [U -> files], overlays \in [U -> files] :
             /\ \A u \in U : /\ IsMainOf(ophase, mains[u]) /\ mains[u].id = u
                             /\ IsOverlayOf(ophase, overlays[u])
                             /\ overlays[u].id = u
             /\ LET P == {[uuid |-> u, main |-> mains[u],
                           overlay |-> overlays[u]] : u \in U}
                IN /\ pairs' = [pairs EXCEPT ![ophase] = P]
                   /\ todo' = P
    /\ opc' = "loop"
    /\ UNCHANGED <<mode, aborted, errors, fs, fs0, meta, ophase, cur, history>>

\* loop header and output paths of the next pair
BeginPair ==
    /\ Running /\ opc = "loop"
    /\ \E p \in todo :
          /\ todo' = todo \ {p}
          /\ \E mm \in Observable(p.main), om \in Observable(p.overlay) :
                /\ cur' = [NoPair EXCEPT
                              !.uuid = p.uuid, !.main = p.main,
                              !.overlay = p.overlay,
                              !.original = OriginalPath(p.main),
                              !.with_overlay = WithOverlayPath(p.main),
                              !.pos = 1, !.main_meta = mm,
                              !.overlay_meta = om]
                /\ meta' = Put(Put(meta, p.main, mm), p.overlay, om)
    /\ opc' = "step"
    /\ UNCHANGED <<mode, aborted, errors, fs, fs0, ophase, pairs, history>>

\* main_path.rename(original_path)
StepRename ==
    /\ Running /\ CurStep = "rename"
    /\ \/ /\ fs' = Put(Remove(fs, cur.main), cur.original, fs[cur.main])
          /\ meta' = Put(Remove(meta, cur.main), cur.original, cur.main_meta)
          /\ Proceed(cur)
       \/ /\ Fail(cur, "rename")
          /\ UNCHANGED <<fs, meta>>
    /\ UNCHANGED <<mode, fs0, ophase, pairs, todo>>

\* image pair: decode both files, merge their EXIF blocks, composite
StepLoad ==
    /\ Running /\ CurStep = "load"
    /\ \/ /\ cur.overlay.ext \in ImageSuffixes
          /\ cur.overlay \in DOMAIN fs /\ cur.original \in DOMAIN fs
          /\ Proceed([cur EXCEPT
                 !.final_exif = merge_exif_data(cur.main_meta.exif,
                                                cur.overlay_meta.exif),
                 !.composite = fs[cur.original].data \o fs[cur.overlay].data])
       \/ \* Image.open or alpha_composite raises; a file that is not an
          \* image always ends here
          Fail(cur, "load")
    /\ UNCHANGED <<mode, fs, fs0, meta, ophase, pairs, todo>>

\* image pair: save the composite, with the merged EXIF block when
\* piexif.dump accepts it and without any otherwise
StepSave ==
    /\ Running /\ CurStep = "save"
    /\ \/ \E with_exif \in BOOLEAN :
             LET exif == IF with_exif THEN cur.final_exif ELSE NoExif
             IN /\ fs' = Put(fs, cur.with_overlay,
                             [data |-> cur.composite, mtime |-> RunTime])
                /\ meta' = Put(meta, cur.with_overlay,
                               [exif |-> exif, creation_time |-> None])
                /\ Proceed([cur EXCEPT !.written = TRUE,
                                       !.exif_dropped = ~with_exif,
                                       !.date_written = get_exif_date(exif)])
       \/ \* save raises before the output file is created
          /\ Fail(cur, "save")
          /\ UNCHANGED <<fs, meta>>
       \/ \* save raises leaving a truncated output file
          /\ fs' = Put(fs, cur.with_overlay, [data |-> <<>>, mtime |-> RunTime])
          /\ meta' = Put(meta, cur.with_overlay,
                         [exif |-> NoExif, creation_time |-> None])
          /\ Fail(cur, "save")
    /\ UNCHANGED <<mode, fs0, ophase, pairs, todo>>

\* overlay_path.unlink()
StepUnlink ==
    /\ Running /\ CurStep = "unlink"
    /\ \/ /\ cur.overlay \in DOMAIN fs
          /\ fs' = Remove(fs, cur.overlay)
          /\ meta' = Remove(meta, cur.overlay)
          /\ Proceed(cur)
       \/ /\ Fail(cur, "unlink")
          /\ UNCHANGED <<fs, meta>>
    /\ UNCHANGED <<mode, fs0, ophase, pairs, todo>>

\* video pair: the date of the file name, the embedded date, their minimum,
\* and the probe for an audio stream
StepDates ==
    /\ Running /\ CurStep = "dates"
    /\ LET name_date == cur.original.date
       IN \/ \* strptime on the start of the name raises ValueError
             /\ name_date = None
             /\ Fail(cur, "filename_date")
          \/ \* get_video_creation_date returns the tag, or None when the
             \* probe fails or the tag is absent
             /\ name_date # None
             /\ \E video_date \in {cur.main_meta.creation_time, None} :
                   Proceed([cur EXCEPT !.final_date =
                               Min({name_date, video_date} \ {None})])
          \/ \* the audio probe cannot be started
             /\ name_date # None
             /\ Fail(cur, "audio_probe")
    /\ UNCHANGED <<mode, fs, fs0, meta, ophase, pairs, todo>>

\* video pair: ffmpeg writes the composite with creation_time = final_date
StepFfmpeg ==
    /\ Running /\ CurStep = "ffmpeg"
    /\ \/ /\ cur.overlay \in DOMAIN fs /\ cur.original \in DOMAIN fs
          /\ fs' = Put(fs, cur.with_overlay,
                       [data |-> fs[cur.original].data \o fs[cur.overlay].data,
                        mtime |-> RunTime])
          /\ meta' = Put(meta, cur.with_overlay,
                         [exif |-> NoExif, creation_time |-> cur.final_date])
          /\ Proceed([cur EXCEPT !.written = TRUE,
                                 !.date_written = cur.final_date])
       \/ \* non-zero exit before the output file is created
          /\ Fail(cur, "ffmpeg")
          /\ UNCHANGED <<fs, meta>>
       \/ \* non-zero exit leaving a partial output file
          /\ fs' = Put(fs, cur.with_overlay, [data |-> <<>>, mtime |-> RunTime])
          /\ meta' = Put(meta, cur.with_overlay,
                         [exif |-> NoExif, creation_time |-> None])
          /\ Fail(cur, "ffmpeg")
    /\ UNCHANGED <<mode, fs0, ophase, pairs, todo>>

\* video pair: os.utime on the output, then on the renamed main
StepUtime ==
    /\ Running /\ CurStep = "utime"
    /\ LET stamped(f, n) == [f EXCEPT ![n].mtime = cur.final_date]
       IN \/ /\ fs' = stamped(stamped(fs, cur.with_overlay), cur.original)
             /\ Proceed(cur)
          \/ /\ fs' = stamped(fs, cur.with_overlay)
             /\ Fail(cur, "utime")
          \/ /\ UNCHANGED fs
             /\ Fail(cur, "utime")
    /\ UNCHANGED <<mode, fs0, meta, ophase, pairs, todo>>

\* the loop is exhausted: the phase function returns
EndPhase ==
    /\ Running /\ opc = "loop" /\ todo = {}
    /\ ophase' = IF ophase = "image" THEN "video" ELSE "finished"
    /\ opc' = IF ophase = "image" THEN "enumerate" ELSE "done"
    /\ UNCHANGED <<mode, aborted, errors, fs, fs0, meta, pairs, todo, cur,
                   history>>

NextOverlay ==
    /\ \/ Enumerate \/ BeginPair \/ StepRename \/ StepLoad \/ StepSave
       \/ StepUnlink \/ StepDates \/ StepFfmpeg \/ StepUtime \/ EndPhase
    /\ UNCHANGED <<dedupVars, mergeVars, stampVars, tailVars>>

SpecOverlay == InitOverlay /\ [][NextOverlay]_vars

\* ------------------------------------------ the overlay phases, run twice
\* the program is started again on the tmp/ tree the first run left
RunAgain ==
    /\ Running /\ ophase = "finished" /\ run = 1
    /\ run' = 2
    /\ fs1' = fs
    /\ history1' = history
    /\ history' = {}
    /\ ophase' = "image"
    /\ opc' = "enumerate"
    /\ pairs' = [p \in {"image", "video"} |-> {}]
    /\ UNCHANGED <<mode, aborted, errors, fs, fs0, meta, todo, cur, dedupVars,
                   mergeVars, stampVars, emptyVars, reorgVars, probeVars>>

NextRerun == NextOverlay \/ RunAgain

SpecRerun == InitOverlay /\ [][NextRerun]_vars

\* ----------------------------------------------------- update_all_metadata
\* the extensions update_all_metadata globs for
MediaSuffixes == {"jpg", "jpeg", "png", "webp", "mp4"}

MediaKinds == {<<"main", "jpg">>, <<"with-overlay", "jpg">>, <<"main", "mp4">>}

MediaNames ==
    {[date |-> d, id |-> "a", role |-> k[1], ext |-> k[2]] :
        d \in {None} \cup NameDates, k \in MediaKinds}

\* file_path.stem + '_temp' + file_path.suffix
TempPath(n) ==
    [n EXCEPT !.role = CASE n.role = "main" -> "main_temp"
                         [] n.role = "with-overlay" -> "with-overlay_temp"
                         [] OTHER -> "temp"]

\* extract_date_from_filename: the date the name starts with, or None
extract_date_from_filename(n) == n.date

Visit(n, outcome) ==
    visited' = visited \cup {[file |-> n, outcome |-> outcome, pass |-> pass]}

\* piexif.load failed: the empty block used instead
EmptyExif == Loaded([t \in {} |-> None])

\* a test that also rewrites a file whose date equals the filename date
NotNewer(date, existing_date) == existing_date = None \/ date <= existing_date

\* "if not existing_date or date < existing_date"
IsOlder(date, existing_date) == existing_date = None \/ date < existing_date

update_image_metadata(n) ==
    LET date == extract_date_from_filename(n)
    IN IF date = None
       THEN /\ NoRaise /\ Visit(n, "no_date") /\ UNCHANGED <<fs, meta>>
       ELSE \/ \* Image.open raises
               /\ Raise("update_image") /\ Visit(n, "failed")
               /\ UNCHANGED <<fs, meta>>
            \/ \E m \in Observable(n) :
                 LET exif_dict == IF m.exif.loaded THEN m.exif ELSE EmptyExif
                     existing_date == get_exif_date(exif_dict)
                     stamped == Loaded(Updated(exif_dict.tags,
                                               [t \in DateTags |-> date]))
                 IN IF IsOlder(date, existing_date)
                    THEN \/ \* saved, timestamps set
                            /\ NoRaise /\ Visit(n, "stamped")
                            /\ fs' = [fs EXCEPT ![n].mtime = date]
                            /\ meta' = Put(meta, n, [m EXCEPT !.exif = stamped])
                         \/ \* saved, os.utime raises
                            /\ Raise("update_image") /\ Visit(n, "failed")
                            /\ fs' = [fs EXCEPT ![n].mtime = RunTime]
                            /\ meta' = Put(meta, n, [m EXCEPT !.exif = stamped])
                         \/ \* piexif.dump or save raises, file as it was
                            /\ Raise("update_image") /\ Visit(n, "failed")
                            /\ meta' = Put(meta, n, m)
                            /\ UNCHANGED fs
                         \/ \* save raises leaving a truncated file
                            /\ Raise("update_image") /\ Visit(n, "failed")
                            /\ fs' = [fs EXCEPT ![n] = [data |-> <<>>,
                                                        mtime |-> RunTime]]
                            /\ meta' = Put(meta, n, [m EXCEPT !.exif = NoExif])
                    ELSE /\ NoRaise /\ Visit(n, "kept")
                         /\ meta' = Put(meta, n, m)
                         /\ UNCHANGED fs

\* ffmpeg can copy the streams of n: the file is not a truncated one
Readable(n) == fs[n].data # <<>>

update_video_metadata(n) ==
    LET date == extract_date_from_filename(n)
        temp_path == TempPath(n)
    IN IF date = None
       THEN /\ NoRaise /\ Visit(n, "no_date") /\ UNCHANGED <<fs, meta>>
       ELSE \/ \* ffprobe cannot be run or prints no JSON
               /\ Raise("update_video") /\ Visit(n, "failed")
               /\ UNCHANGED <<fs, meta>>
            \/ \E m \in Observable(n) :
                 IF m.creation_time # None
                 THEN /\ NoRaise /\ Visit(n, "kept")
                      /\ meta' = Put(meta, n, m)
                      /\ UNCHANGED fs
                 ELSE LET rewritten == [m EXCEPT !.creation_time = date]
                      IN \/ \* ffmpeg, replace and utime succeed
                            /\ Readable(n)
                            /\ NoRaise /\ Visit(n, "stamped")
                            /\ fs' = [fs EXCEPT ![n].mtime = date]
                            /\ meta' = Put(meta, n, rewritten)
                         \/ \* os.utime raises after the replace
                            /\ Readable(n)
                            /\ Raise("update_video") /\ Visit(n, "failed")
                            /\ fs' = [fs EXCEPT ![n].mtime = RunTime]
                            /\ meta' = Put(meta, n, rewritten)
                         \/ \* replace raises: the scratch copy stays
                            /\ Readable(n)
                            /\ Raise("update_video") /\ Visit(n, "failed")
                            /\ fs' = Put(fs, temp_path,
                                         [data |-> fs[n].data, mtime |-> RunTime])
                            /\ meta' = Put(Put(meta, n, m), temp_path, rewritten)
                         \/ \* ffmpeg fails leaving a partial scratch copy
                            /\ Raise("update_video") /\ Visit(n, "failed")
                            /\ fs' = Put(fs, temp_path,
                                         [data |-> <<>>, mtime |-> RunTime])
                            /\ meta' = Put(Put(meta, n, m), temp_path,
                                           [m EXCEPT !.creation_time = None])
                         \/ \* ffmpeg fails before creating the scratch copy
                            /\ Raise("update_video") /\ Visit(n, "failed")
                            /\ meta' = Put(meta, n, m)
                            /\ UNCHANGED fs

InitStamp ==
    /\ mode = "update_all_metadata"
    /\ aborted = FALSE
    /\ errors = 0
    /\ \E S \in SetsUpTo(MediaNames, MaxFiles) :
          fs = [n \in S |-> [data |-> <<n>>, mtime |-> ExtractTime]]
    /\ fs0 = fs
    /\ meta = <<>>
    /\ ophase = "idle"
    /\ opc = "idle"
    /\ pairs = <<>>
    /\ todo = {}
    /\ cur = NoPair
    /\ history = {}
    /\ media_files = {}
    /\ pending = {}
    /\ visited = {}
    /\ spc = "enumerate"
    /\ pass = 1
    /\ DedupIdle
    /\ MergeIdle
    /\ TailIdle

Stamping == mode = "update_all_metadata" /\ ~aborted

\* the five rglob calls that build media_files
EnumerateMedia ==
    /\ Stamping /\ spc = "enumerate"
    /\ media_files' = {n \in DOMAIN fs : n.ext \in MediaSuffixes}
    /\ pending' = media_files'
    /\ spc' = "loop"
    /\ UNCHANGED <<mode, aborted, errors, fs, fs0, meta, visited, pass>>

\* one iteration of the loop: the update call for one file
UpdateFile ==
    /\ Stamping /\ spc = "loop"
    /\ \E n \in pending :
          /\ pending' = pending \ {n}
          /\ IF n.ext = "mp4" THEN update_video_metadata(n)
             ELSE update_image_metadata(n)
    /\ UNCHANGED <<mode, fs0, media_files, spc, pass>>

EndUpdate ==
    /\ Stamping /\ spc = "loop" /\ pending = {}
    /\ spc' = "done"
    /\ UNCHANGED <<mode, aborted, errors, fs, fs0, meta, media_files, pending,
                   visited, pass>>

NextStamp ==
    /\ EnumerateMedia \/ UpdateFile \/ EndUpdate
    /\ UNCHANGED <<dedupVars, mergeVars, ophase, opc, pairs, todo, cur, history,
                   tailVars>>

SpecStamp == InitStamp /\ [][NextStamp]_vars

\* update_all_metadata called once more on the files the first call left
Passes == {1, 2}

CallAgain ==
    /\ Stamping /\ spc = "done" /\ pass + 1 \in Passes
    /\ pass' = pass + 1
    /\ spc' = "enumerate"
    /\ UNCHANGED <<mode, aborted, errors, fs, fs0, meta, media_files, pending,
                   visited>>

NextRestamp ==
    \/ NextStamp
    \/ /\ CallAgain
       /\ UNCHANGED <<dedupVars, mergeVars, ophase, opc, pairs, todo, cur,
                      history, tailVars>>

SpecRestamp == InitStamp /\ [][NextRestamp]_vars

\* ----------------------------------------------------- remove_empty_folders
\* the directories tmp/ can hold, each named by its path below tmp/
Dirs == {<<"a">>, <<"a", "b">>, <<"a", "b", "d">>, <<"c">>}

Parent(d) == SubSeq(d, 1, Len(d) - 1)

\* the sets of directories that hold the parent of each member
Trees ==
    {t \in SUBSET Dirs : \A d \in t : Len(d) > 1 => Parent(d) \in t}

\* list(dir_path.iterdir()) is empty
IsEmptyDir(d) ==
    /\ d \notin occupied
    /\ ~\E c \in tree : Len(c) > 1 /\ Parent(c) = d

\* logging.error, the count kept up to MaxLogged
Logged(n) == errors' = Min({errors + n, MaxLogged})

InitEmpty ==
    /\ mode = "remove_empty_folders"
    /\ aborted = FALSE
    /\ errors = 0
    /\ tree \in Trees
    /\ occupied \in SUBSET tree
    /\ denied \in SUBSET tree
    /\ empty_dirs = {}
    /\ epc = "start"
    /\ DedupIdle
    /\ MergeIdle
    /\ OverlayIdle
    /\ StampIdle
    /\ ReorgIdle
    /\ RerunIdle
    /\ ProbeIdle

Cleaning == mode = "remove_empty_folders" /\ ~aborted

\* all_dirs, and the return when there is no directory
CountDirs ==
    /\ Cleaning /\ epc = "start"
    /\ epc' = IF tree = {} THEN "done" ELSE "scan"
    /\ UNCHANGED <<mode, aborted, errors, tree, occupied, denied, empty_dirs>>

\* the first half of the while body: collect the empty directories, a
\* directory whose iterdir raises being logged and left out; then the break
FindEmpty ==
    /\ Cleaning /\ epc = "scan"
    /\ \E unreadable \in SUBSET tree :
          /\ empty_dirs' = {d \in tree \ unreadable : IsEmptyDir(d)}
          /\ Logged(Cardinality(unreadable))
    /\ epc' = IF empty_dirs' = {} THEN "done" ELSE "remove"
    /\ UNCHANGED <<mode, aborted, tree, occupied, denied>>

\* the second half, one directory: rmdir, refused for a directory in denied
RemoveDir ==
    /\ Cleaning /\ epc = "remove"
    /\ \E d \in empty_dirs :
          /\ empty_dirs' = empty_dirs \ {d}
          /\ IF d \in denied
             THEN Logged(1) /\ UNCHANGED tree
             ELSE tree' = tree \ {d} /\ UNCHANGED errors
    /\ epc' = IF empty_dirs' = {} THEN "scan" ELSE "remove"
    /\ UNCHANGED <<mode, aborted, occupied, denied>>

NextEmpty ==
    /\ CountDirs \/ FindEmpty \/ RemoveDir
    /\ UNCHANGED <<dedupVars, mergeVars, overlayVars, stampVars, reorgVars,
                   rerunVars, probeVars>>

SpecEmpty == InitEmpty /\ [][NextEmpty]_vars

\* the interpreter keeps executing the function until it returns
SpecEmptyRun == SpecEmpty /\ WF_vars(NextEmpty)

\* -------------------------------------------------------- reorganize_files
\* the directories a media file can sit in; "tmp" is the root of the tree
Folders == {"chat", "memories", "Memories", "tmp"}

\* file_path.parent.name.lower()
FolderName(folder) == IF folder = "Memories" THEN "memories" ELSE folder

\* the order of str on the lower-cased folder names
FolderRank(folder_name) ==
    IF folder_name = "chat" THEN 1 ELSE IF folder_name = "memories" THEN 2
    ELSE 3

\* the position of a suffix in the list the enumeration goes through
Extensions == <<"jpg", "jpeg", "png", "webp", "mp4", "mp3">>

ExtRank(ext) == CHOOSE i \in 1..Len(Extensions) : Extensions[i] = ext

InFolder(folder, n) == [folder |-> folder, name |-> n]

NoFile == InFolder("", NoName)

ReorgDates == {1, 2}

\* the files the tree can hold when the phase starts
ReorgFiles ==
    {InFolder(f, [date |-> d, id |-> "a", role |-> "main", ext |-> e]) :
        f \in Folders, d \in {None} \cup ReorgDates, e \in {"jpg", "mp4"}}

\* f"{folder_name}_{counter}{suffix}"
NewName(folder_name, counter, ext) ==
    [folder_name |-> folder_name, number |-> counter, ext |-> ext]

\* what media/ holds before the run: nothing, or the first file of an
\* earlier run
EarlierMedia ==
    {<<>>, [m \in {NewName("memories", 1, "jpg")} |->
               [origin |-> "earlier", file |-> NoFile]]}

InitReorg ==
    /\ mode = "reorganize_files"
    /\ aborted = FALSE
    /\ errors = 0
    /\ rfiles \in SetsUpTo(ReorgFiles, MaxFiles)
    /\ media \in EarlierMedia
    /\ files_with_metadata = <<>>
    /\ folder_counters = <<>>
    /\ ri = 0
    /\ rpc = "collect"
    /\ moves = <<>>
    /\ DedupIdle
    /\ MergeIdle
    /\ OverlayIdle
    /\ StampIdle
    /\ EmptyIdle
    /\ RerunIdle
    /\ ProbeIdle

Reorganizing == mode = "reorganize_files" /\ ~aborted

\* the file is appended to files_with_metadata: it is not directly under
\* tmp/ and its name starts with a date
Collected(file) ==
    /\ FolderName(file.folder) # "tmp"
    /\ file.name.ext \in SeqToSet(Extensions)
    /\ file.name.date # None

Entry(file) ==
    [file |-> file, folder_name |-> FolderName(file.folder),
     date |-> file.name.date]

\* the key of the sort, and the enumeration order the stable sort keeps
\* among equal keys: the suffixes in the order of the list
SortedBefore(x, y) ==
    \/ FolderRank(x.folder_name) < FolderRank(y.folder_name)
    \/ /\ x.folder_name = y.folder_name
       /\ \/ x.date < y.date
          \/ /\ x.date = y.date
             /\ ExtRank(x.file.name.ext) <= ExtRank(y.file.name.ext)

\* the enumeration loop and the sort; strptime raises on a name without a
\* date, which is logged
Collect ==
    /\ Reorganizing /\ rpc = "collect"
    /\ LET found == {f \in rfiles : Collected(f)}
           unparsed == {f \in rfiles : /\ FolderName(f.folder) # "tmp"
                                       /\ f.name.date = None}
       IN /\ \E s \in [1..Cardinality(found) -> {Entry(f) : f \in found}] :
                /\ \A i, j \in DOMAIN s : i < j =>
                      s[i] # s[j] /\ SortedBefore(s[i], s[j])
                /\ files_with_metadata' = s
          /\ errors' = errors + Cardinality(unparsed)
    /\ folder_counters' = <<>>
    /\ ri' = 1
    /\ rpc' = "move"
    /\ UNCHANGED <<mode, aborted, rfiles, media, moves>>

\* the body of the move loop for one file
MoveFile ==
    /\ Reorganizing /\ rpc = "move" /\ ri <= Len(files_with_metadata)
    /\ LET e == files_with_metadata[ri]
           counter == IF e.folder_name \in DOMAIN folder_counters
                      THEN folder_counters[e.folder_name] ELSE 1
           new_name == NewName(e.folder_name, counter, e.file.name.ext)
           Moved(ok) == [file |-> e.file, folder_name |-> e.folder_name,
                         date |-> e.date, new_name |-> new_name,
                         existed |-> new_name \in DOMAIN media, ok |-> ok]
       IN /\ folder_counters' = Put(folder_counters, e.folder_name, counter + 1)
          /\ \/ \* rename succeeded; on POSIX it replaces an existing file
                /\ rfiles' = rfiles \ {e.file}
                /\ media' = Put(media, new_name,
                                [origin |-> "moved", file |-> e.file])
                /\ moves' = Append(moves, Moved(TRUE))
                /\ NoRaise
             \/ \* rename raised
                /\ Raise("move")
                /\ moves' = Append(moves, Moved(FALSE))
                /\ UNCHANGED <<rfiles, media>>
    /\ ri' = ri + 1
    /\ UNCHANGED <<mode, files_with_metadata, rpc>>

EndReorganize ==
    /\ Reorganizing /\ rpc = "move" /\ ri > Len(files_with_metadata)
    /\ rpc' = "done"
    /\ UNCHANGED <<mode, aborted, errors, rfiles, media, files_with_metadata,
                   folder_counters, ri, moves>>

NextReorg ==
    /\ Collect \/ MoveFile \/ EndReorganize
    /\ UNCHANGED <<dedupVars, mergeVars, overlayVars, stampVars, emptyVars,
                   rerunVars, probeVars>>

SpecReorg == InitReorg /\ [][NextReorg]_vars

\* ---------------------------------------------- overlays to reorganize
\* The calls of main from process_image_overlays on, each working on the
\* files the one before left; remove_empty_folders in between touches no
\* file.  The files of the run sit in one folder.
RunFolder == "memories"

\* main: process_video_overlays returned, update_all_metadata is called
StartStamp ==
    /\ mode = "overlays" /\ ~aborted /\ ophase = "finished"
    /\ mode' = "update_all_metadata"
    /\ spc' = "enumerate"
    /\ pass' = 1
    /\ UNCHANGED <<aborted, errors, overlayVars, media_files, pending, visited,
                   dedupVars, mergeVars, tailVars>>

\* main: update_all_metadata returned, reorganize_files is called
StartReorganize ==
    /\ mode = "update_all_metadata" /\ ~aborted /\ spc = "done"
    /\ mode' = "reorganize_files"
    /\ rfiles' = {InFolder(RunFolder, n) : n \in DOMAIN fs}
    /\ rpc' = "collect"
    /\ UNCHANGED <<aborted, errors, media, files_with_metadata,
                   folder_counters, ri, moves, overlayVars, stampVars,
                   dedupVars, mergeVars, emptyVars, rerunVars, probeVars>>

NextPipeline ==
    NextOverlay \/ StartStamp \/ NextStamp \/ StartReorganize \/ NextReorg

\* the export holds the files of one identifier
InitPipeline ==
    /\ InitOverlay
    /\ Cardinality(DOMAIN fs) <= PipelineFiles
    /\ \A n \in DOMAIN fs : n.id = "a"

SpecPipeline == InitPipeline /\ [][NextPipeline]_vars

\* ------------------------------------------------ get_video_creation_date
\* A creation_time text is a sequence of pieces: a date, a separator, a
\* time of day, then optionally "." with a fraction and a zone suffix.
DatePieces == {"2022-05-01", "2022-05-02"}

TimePieces == {"10:00:00", "23:59:59"}

Separators == {" ", "T"}

Fractions == {"000000", "123456"}

Zones == {"Z", "+00:00"}

\* the datetime strptime builds, and the None returned instead
DateTime(date_piece, time_piece) == [date |-> date_piece, time |-> time_piece]

NoDateTime == DateTime("", "")

\* the ISO-8601-like texts a container can carry
WellFormedTexts ==
    {<<d, s, t>> \o f \o z :
        d \in DatePieces, s \in Separators, t \in TimePieces,
        f \in {<<>>} \cup {<<".", x>> : x \in Fractions},
        z \in {<<>>} \cup {<<x>> : x \in Zones}}

MalformedTexts == {<<>>, <<"junk">>, <<"2022-05-01">>}

\* the entry of the tags dictionary: absent, or present with a text
TagEntries ==
    {[present |-> FALSE, text |-> <<>>]} \cup
    {[present |-> TRUE, text |-> x] : x \in WellFormedTexts \cup MalformedTexts}

RECURSIVE SplitAtDot(_)
\* text.split('.')[0]
SplitAtDot(text) ==
    IF text = <<>> \/ Head(text) = "." THEN <<>>
    ELSE <<Head(text)>> \o SplitAtDot(Tail(text))

\* datetime.strptime(text, '%Y-%m-%d %H:%M:%S'), with the ValueError of a
\* text that does not match the whole format caught by the caller
Strptime(text) ==
    IF /\ Len(text) = 3
       /\ text[1] \in DatePieces /\ text[2] = " " /\ text[3] \in TimePieces
    THEN DateTime(text[1], text[3])
    ELSE NoDateTime

get_video_creation_date(tag) ==
    IF tag.present THEN Strptime(SplitAtDot(tag.text)) ELSE NoDateTime

InitProbe ==
    /\ mode = "get_video_creation_date"
    /\ aborted = FALSE
    /\ errors = 0
    /\ creation_time_tag \in TagEntries
    /\ probe_result = NoDateTime
    /\ gpc = "call"
    /\ DedupIdle
    /\ MergeIdle
    /\ OverlayIdle
    /\ StampIdle
    /\ EmptyIdle
    /\ ReorgIdle
    /\ RerunIdle

CallProbe ==
    /\ mode = "get_video_creation_date" /\ gpc = "call"
    /\ probe_result' = get_video_creation_date(creation_time_tag)
    /\ gpc' = "returned"
    /\ UNCHANGED <<mode, aborted, errors, creation_time_tag, dedupVars,
                   mergeVars, overlayVars, stampVars, emptyVars, reorgVars,
                   rerunVars>>

NextProbe == CallProbe

SpecProbe == InitProbe /\ [][NextProbe]_vars

\* ------------------------------------------------------------ the phases
InitPhases == InitDedup \/ InitOverlay \/ InitStamp

NextPhases == NextDedup \/ NextOverlay \/ NextStamp

SpecPhases == InitPhases /\ [][NextPhases]_vars

\* ------------------------------------------- remove_duplicates: properties
\* files stored in hash_dict
Hashed == UNION {SeqToSet(PathsOf(hash_dict[k].members)) : k \in 1..Len(hash_dict)}

Scheduled == SeqToSet(to_delete)

\* the second loop has handled these groups
DecidedGroups ==
    IF dpc = "decide" THEN SubSeq(duplicate_groups, 1, di - 1)
    ELSE IF dpc \in {"remove", "done"} THEN duplicate_groups
    ELSE <<>>

EntryScore(e) == score_metadata(e.metadata)

\* member k has the smallest score and is the first seen among those tied
SmallestFirstSeen(members, k) ==
    \A j \in 1..Len(members) :
        \/ EntryScore(members[k]) < EntryScore(members[j])
        \/ EntryScore(members[k]) = EntryScore(members[j]) /\ k <= j

DistinctScores(members) ==
    \A j, k \in 1..Len(members) :
        j # k => EntryScore(members[j]) # EntryScore(members[k])

Orderings(n) ==
    {p \in [1..n -> 1..n] : \A j, k \in 1..n : j # k => p[j] # p[k]}

Permuted(members, p) == [k \in 1..Len(members) |-> members[p[k]]]

\* the fingerprints, files and scores the pass works with, read off the
\* file system and the failures instead of hash_dict
ObservedDates(f) ==
    {d \in {filename_date[f]} \cup
           (IF f \in probe_failed THEN {} ELSE {embedded[content[f]]}) :
        d # None}

ObservedScore(f) ==
    IF ObservedDates(f) # {} THEN Min(ObservedDates(f)) ELSE ExtractTime

Comparable(h) == {f \in DFiles \ hash_failed : content[f] = h}

\* the member of Comparable(h) that must survive
Oldest(h) ==
    CHOOSE f \in Comparable(h) : \A g \in Comparable(h) :
        \/ ObservedScore(f) < ObservedScore(g)
        \/ ObservedScore(f) = ObservedScore(g) /\ f <= g

PassComplete == dpc = "done" /\ unlink_failed = {}

\* C1 as stated: after remove_duplicates completes with every unlink
\* succeeding, every fingerprint carried by a successfully hashed file is
\* carried by exactly one remaining file.
C1_OneFilePerFingerprint ==
    PassComplete =>
        \A f \in Hashed :
            Cardinality({g \in disk : content[g] = content[f]}) = 1

\* C1 amended: after remove_duplicates completes with every unlink
\* succeeding, every fingerprint carried by a successfully hashed file is
\* carried by exactly one remaining successfully hashed file (a group of two
\* or more keeps one survivor and loses every other member); a file whose
\* hashing failed and a file whose content is unique are never deleted.
C1_OneHashedFilePerFingerprint ==
    /\ PassComplete =>
           \A f \in Hashed :
               /\ Cardinality({g \in disk \cap Hashed : content[g] = content[f]}) = 1
               /\ {g \in disk \cap Hashed : content[g] = content[f]} \subseteq
                      survivors \cup {g \in Hashed : Cardinality(Comparable(content[g])) = 1}
    /\ hash_failed \subseteq disk
    /\ \A f \in DFiles :
           (\A g \in DFiles \ {f} : content[g] # content[f]) => f \in disk

\* a pass that deleted a duplicate beside an unhashed copy of the same bytes
C1_Witness ==
    /\ PassComplete
    /\ \E f \in hash_failed, g \in survivors, d \in DFiles \ disk :
           content[f] = content[g] /\ content[d] = content[g]

\* C2: the survivor of every duplicate group is the member with the
\* smallest score, the first enumerated among those tied on it; every other
\* member is scheduled for deletion; and when the scores of a group are
\* distinct, every permutation of the group selects the same survivor.
C2_SurvivorIsSmallestFirstSeen ==
    \A g \in 1..Len(DecidedGroups) :
        LET members == DecidedGroups[g].members
        IN /\ \A k \in 1..Len(members) :
                  /\ members[k].path \in survivors <=> SmallestFirstSeen(members, k)
                  /\ members[k].path \in Scheduled <=> ~SmallestFirstSeen(members, k)
           /\ DistinctScores(members) =>
                  \A p \in Orderings(Len(members)) :
                      ScoredFiles(Permuted(members, p))[1].path \in survivors

\* a decided group of three in which the survivor ties with a later member
\* and a third member has another score
C2_Witness ==
    \E g \in 1..Len(DecidedGroups) :
        LET members == DecidedGroups[g].members
        IN /\ Len(members) = 3
           /\ \E j, k \in 1..3 :
                  /\ j < k
                  /\ members[j].path \in survivors
                  /\ EntryScore(members[j]) = EntryScore(members[k])
           /\ \E j, k \in 1..3 : EntryScore(members[j]) # EntryScore(members[k])

Analysed(f) == dpc # "analyze" \/ f < di

Has(exif_dict, t) == exif_dict.loaded /\ t \in DOMAIN exif_dict.tags

\* the earlier of two dates when both exist, else the one that exists,
\* else None
Reconciled(a, b) == IF {a, b} \ {None} = {} THEN None ELSE Min({a, b} \ {None})

\* C5: a non-date tag present only on the overlay appears in the merged
\* result with the overlay's value; a non-date tag present on both keeps
\* the main's value.
C5_AuxTagMerge ==
    mpc = "returned" =>
        \A t \in AuxTags :
            /\ Has(overlay_exif, t) /\ ~Has(main_exif, t) =>
                   Has(final_exif, t) /\ final_exif.tags[t] = overlay_exif.tags[t]
            /\ Has(overlay_exif, t) /\ Has(main_exif, t) =>
                   Has(final_exif, t) /\ final_exif.tags[t] = main_exif.tags[t]

\* C6: every date tag present in the merged result holds the reconciled
\* (oldest) date of the main and the overlay.
C6_DateTagsHoldReconciled ==
    mpc = "returned" =>
        \A t \in DateTags :
            Has(final_exif, t) =>
                final_exif.tags[t] =
                    Reconciled(get_exif_date(main_exif), get_exif_date(overlay_exif))

\* ------------------------------------------------ overlay phases: properties
\* the candidate date of a file: the date of its name, else its embedded
\* date; no file-system fallback
CandidateDate(n, m) ==
    IF n.date # None THEN n.date
    ELSE IF n.ext = "mp4" THEN m.creation_time
    ELSE get_exif_date(m.exif)

\* the statements whose failure is a failure of a decoder, an external tool
\* or the file system
ToolSteps == {"rename", "load", "save", "unlink", "audio_probe", "ffmpeg", "utime"}

\* C4: for every pair, the date written with the with-overlay output is the
\* reconciled date of the main's and the overlay's candidate dates (unless
\* the encoder rejected the metadata block), and a pair without any date is
\* still composited.
C4_WrittenDateIsReconciled ==
    \A h \in history :
        LET main_date == CandidateDate(h.main, h.main_meta)
            overlay_date == CandidateDate(h.overlay, h.overlay_meta)
        IN /\ (h.written /\ ~h.exif_dropped) =>
                  h.date_written = Reconciled(main_date, overlay_date)
           /\ (/\ main_date = None /\ overlay_date = None
               /\ h.failed_at \notin ToolSteps) => h.written

\* a file the run renamed, deleted or rewrote
Touched(n) == n \notin DOMAIN fs \/ fs[n] # fs0[n]

\* an image main with an overlay that is not an image
DifferentKind(m, o) == m.ext \in ImageSuffixes /\ o.ext \notin ImageSuffixes

\* C7: the overlay phases touch a file only when it belongs to a pair of a
\* main and an overlay of matching kind that share one identifier.
C7_OnlyPairsTouched ==
    \A n \in DOMAIN fs0 :
        Touched(n) =>
            \E m \in DOMAIN fs0, o \in DOMAIN fs0 :
                /\ n \in {m, o}
                /\ m.role = "main" /\ o.role = "overlay"
                /\ Lower(m.id) = Lower(o.id)
                /\ ~DifferentKind(m, o)

\* the pairs list of the running phase was just built
JustEnumerated == opc = "loop" /\ cur = NoPair /\ todo = pairs[ophase]

\* C8: a main and an overlay whose identifiers differ only in letter case
\* are paired as if the identifiers were written identically.
C8_CaseInsensitivePairing ==
    JustEnumerated =>
        \A m \in DOMAIN fs, o \in DOMAIN fs :
            (/\ IsMainOf(ophase, m) /\ IsOverlayOf(ophase, o)
             /\ Lower(m.id) = Lower(o.id)) =>
                \E p \in pairs[ophase] : Lower(p.uuid) = Lower(m.id)

\* the steps after the rename at which a pair can fail
AfterRename == {"load", "save", "unlink", "filename_date", "audio_probe",
                "ffmpeg", "utime"}

\* C9: an overlay file is deleted only as the overlay of the pair being
\* processed and after that pair's with-overlay output was written; a pair
\* that fails after the rename leaves its overlay in place and its main
\* under the "-original" name.
C9_OverlayDeletedAfterOutput ==
    [][/\ \A n \in DOMAIN fs \ DOMAIN fs' :
              IsOverlayName(n) =>
                  /\ n = cur.overlay
                  /\ cur.written
                  /\ cur.with_overlay \in DOMAIN fs
                  /\ fs[cur.with_overlay].data # <<>>
       /\ \A h \in history' \ history :
              h.failed_at \in AfterRename =>
                  /\ h.overlay \in DOMAIN fs'
                  /\ h.original \in DOMAIN fs'
                  /\ h.main \notin DOMAIN fs']_vars

\* one pair failed part-way and kept its renamed main, another pair of the
\* same run completed and its overlay is gone
C9_Witness ==
    /\ \E h \in history :
          /\ h.failed_at \in {"load", "save", "ffmpeg"}
          /\ h.original \in DOMAIN fs
    /\ \E h \in history :
          /\ h.failed_at = "none"
          /\ h.overlay \notin DOMAIN fs
          /\ h.with_overlay \in DOMAIN fs

\* -------------------------------------------------- the phases: properties
\* the phase function has returned
PhaseEnded == dpc = "done" \/ opc = "done" \/ spc = "done"

\* the loop of the overlay phase `phase` is exhausted
LoopEnded(phase) ==
    \/ phase = "image" /\ ophase \in {"video", "finished"}
    \/ phase = "video" /\ ophase = "finished"

\* C10: no failure of a unit of work stops a phase: no exception leaves the
\* phase function, the phase can always take its next step until it has
\* returned, and when it returns every unit it enumerated was attempted.
C10_NoFailureStopsPhase ==
    /\ ~aborted
    /\ PhaseEnded \/ ENABLED NextPhases
    /\ dpc \in {"decide", "remove", "done"} => DFiles = Hashed \cup hash_failed
    /\ dpc = "done" =>
           \A f \in Scheduled : f \notin disk \/ f \in unlink_failed
    /\ \A phase \in {"image", "video"} :
           LoopEnded(phase) =>
               \A p \in pairs[phase] :
                   \E h \in history : h.phase = phase /\ h.uuid = p.uuid
    /\ spc = "done" =>
           \A n \in media_files : \E v \in visited : v.file = n /\ v.pass = pass

\* remove_duplicates returned after a hashing failure, a metadata read
\* failure and a deletion failure
C10_Witness ==
    /\ dpc = "done"
    /\ hash_failed # {} /\ probe_failed # {} /\ unlink_failed # {}
    /\ errors >= 3

\* ------------------------------------------------------ stamping: properties
\* the values held by the embedded date tags of a file
EmbeddedDateValues(m) ==
    (IF m.exif.loaded
     THEN {m.exif.tags[t] : t \in DOMAIN m.exif.tags \cap DateTags}
     ELSE {})
    \cup ({m.creation_time} \ {None})

\* the embedded date tags of n hold one value and the file-system
\* timestamp of n is that instant
DatesAgree(n) ==
    (n \in DOMAIN fs /\ n \in DOMAIN meta /\ EmbeddedDateValues(meta[n]) # {})
        => EmbeddedDateValues(meta[n]) = {fs[n].mtime}

\* C11: a file stamped by the metadata update, and the with-overlay output
\* of a composited pair, carries one value in all its embedded date tags and
\* has that instant as its file-system timestamp.
C11_StampedDatesAgree ==
    /\ \A v \in visited : v.outcome = "stamped" => DatesAgree(v.file)
    /\ \A h \in history : h.failed_at = "none" => DatesAgree(h.with_overlay)

\* the embedded metadata and the file-system entry of n are left as they are
FileLeftAsIs(n) ==
    /\ n \in DOMAIN fs' <=> n \in DOMAIN fs
    /\ n \in DOMAIN fs => fs'[n] = fs[n]
    /\ (n \in DOMAIN meta /\ n \in DOMAIN meta') => meta'[n] = meta[n]

\* C12: a second application of the metadata update to a file on which the
\* first application returned without error leaves its embedded dates and
\* its file-system timestamps as the first application left them.
C12_StampingIdempotent ==
    [][\A v \in visited' \ visited :
          (\E w \in visited : w.file = v.file /\ w.outcome # "failed")
              => FileLeftAsIs(v.file)]_vars

\* a file stamped by the first application has been visited again
C12_Witness ==
    \E v, w \in visited :
        /\ v.file = w.file /\ v.pass = 1 /\ w.pass = 2
        /\ v.outcome = "stamped"

\* the embedded capture date of a file with metadata m
CaptureDate(m) ==
    IF m.creation_time # None THEN m.creation_time ELSE get_exif_date(m.exif)

\* C13: after the update of a file with filename date F returned without
\* error, its embedded capture date is the minimum of F and the embedded
\* date it carried before: it is F when the file was rewritten, and it is
\* the date carried before, which is then not later than F, when the file
\* was left as it was.
C13_OldestDateWins ==
    \A v \in visited :
        LET F == extract_date_from_filename(v.file)
        IN /\ v.outcome = "stamped" => CaptureDate(meta[v.file]) = F
           /\ v.outcome = "kept" =>
                  /\ CaptureDate(meta[v.file]) # None
                  /\ CaptureDate(meta[v.file]) <= F

\* ------------------------------------------- reorganize_files: properties
\* the renames of the run that succeeded
Renamed == {i \in DOMAIN moves : moves[i].ok}

\* C20: reorganize_files never overwrites a file: the destination of every
\* file it moves differs from the destination of every other file moved in
\* the run and from every file media/ already held, and within one folder
\* name the numbers go up with the filename dates.
C20_NeverOverwrites ==
    /\ \A i \in Renamed : ~moves[i].existed
    /\ \A i, j \in DOMAIN moves :
          i # j => moves[i].new_name # moves[j].new_name
    /\ \A i, j \in DOMAIN moves :
          (/\ moves[i].folder_name = moves[j].folder_name
           /\ moves[i].new_name.number < moves[j].new_name.number)
             => moves[i].date <= moves[j].date

\* ------------------------------------------------ the pipeline: properties
\* n is a file a failed ffmpeg call left behind: a video that was not in
\* the export and is either truncated or a scratch copy
ScratchRoles == {"main_temp", "with-overlay_temp", "temp"}

LeftBehind(n) ==
    /\ n \in DOMAIN fs /\ n \notin DOMAIN fs0
    /\ n.ext = "mp4"
    /\ \/ n.role = "with-overlay" /\ fs[n].data = <<>>
       \/ n.role \in ScratchRoles

\* C14: no file left behind by a failed ffmpeg call of the video composite
\* or of the video metadata rewrite is treated as a final output: none is
\* stamped by update_all_metadata and none is moved into media/.
C14_LeftoversAreNotOutputs ==
    /\ \A v \in visited : v.outcome = "stamped" => ~LeftBehind(v.file)
    /\ \A k \in DOMAIN media :
          media[k].origin = "moved" => ~LeftBehind(media[k].file.name)

\* ------------------------------------------- the second run: properties
\* the files the first run produced, and the overlays it kept of the pairs
\* it began and did not complete
OfFirstRun(n) ==
    /\ n \in DOMAIN fs1
    /\ \/ n \notin DOMAIN fs0
       \/ \E h \in history1 :
             h.failed_at \notin {"none", "rename"} /\ n = h.overlay

FirstRunComplete == \A h \in history1 : h.failed_at = "none"

\* C15: the overlay phases run again rename, overwrite and delete no file
\* the first run produced or kept, and change nothing after a first run in
\* which every pair completed.
C15_SecondRunKeepsFiles ==
    run = 2 =>
       /\ \A n \in DOMAIN fs1 :
             OfFirstRun(n) => (n \in DOMAIN fs /\ fs[n] = fs1[n])
       /\ FirstRunComplete => fs = fs1

\* ------------------------------------------------ score_metadata: properties
\* the members of the groups whose scores have been computed
ScoredEntries ==
    UNION {SeqToSet(DecidedGroups[g].members) : g \in 1..Len(DecidedGroups)}

AllAnalysed == Hashed \cup hash_failed = DFiles

\* every duplicate group has its survivor
AllDecided ==
    \A g \in 1..Len(duplicate_groups) :
        \E k \in 1..Len(duplicate_groups[g].members) :
            duplicate_groups[g].members[k].path \in survivors

\* C17: no file is deleted before the fingerprint and the candidate dates
\* of every enumerated file have been computed and the survivor of every
\* group has been decided: a step that deletes a file leaves the
\* fingerprints and the decisions as they are, and a step that records a
\* fingerprint or a decision finds every enumerated file still on disk.
C17_FingerprintDecideMutate ==
    [][/\ disk' # disk =>
             /\ AllAnalysed /\ AllDecided
             /\ UNCHANGED <<hash_dict, to_delete, survivors>>
       /\ (hash_dict' # hash_dict \/ to_delete' # to_delete
             \/ survivors' # survivors) =>
             disk = DFiles /\ disk' = disk]_vars

C17_Witness ==
    /\ dpc = "done"
    /\ Cardinality(DFiles \ disk) = 1
    /\ Len(duplicate_groups) = 1
    /\ hash_failed # {}

\* ------------------------------------- get_video_creation_date: properties
\* the date and the time of day a well-formed text states
Stated(text) == DateTime(text[1], text[3])

\* C18: the extraction returns the date and time of the creation_time tag
\* for every well-formed value, whatever its sub-second and zone suffix,
\* and returns none exactly when the tag is absent or malformed.
C18_WellFormedTagIsParsed ==
    gpc = "returned" =>
       IF /\ creation_time_tag.present
          /\ creation_time_tag.text \in WellFormedTexts
       THEN probe_result = Stated(creation_time_tag.text)
       ELSE probe_result = NoDateTime

\* ------------------------------------------ remove_empty_folders: properties
\* C19: remove_empty_folders terminates for every directory tree and every
\* outcome of its file-system calls: the loop that repeats until no empty
\* directory is found eventually exits, also when the removal of an empty
\* directory fails.
C19_Terminates == <>(epc = "done")

====
